---- MODULE Spec2Model ----
(***************************************************************************)
(* Catalog sync of NiteVelour (tools/sync_models.mjs, shipped here as      *)
(* src/tools/sync-crak.mjs): main() as a state machine over the two        *)
(* persisted artifacts data/performers.json and data/catalog.json.         *)
(*                                                                         *)
(* A JavaScript Map is a sequence of records with pairwise distinct        *)
(* identifiers, in insertion order (Map iteration order).  An identifier   *)
(* is a positive integer; NoId stands for the empty string idFor() gives   *)
(* for a record without itemId/id.                                         *)
(***************************************************************************)
EXTENDS Integers, Sequences, FiniteSets, TLC

\* ---------------------------------------------------------------- bounds
MaxId == 2          \* identifiers the upstream can return: 1..MaxId
MaxArg == 2         \* largest --max argument of a full run
MaxRuns == 3        \* process runs in one behaviour (the clock of generatedAt)
PageLen == 2        \* longest page the upstream returns
UpstreamPages == 1  \* non-empty pages the upstream holds per brand
MaxTokens == 3      \* longest --brands argument tried when only arguments vary
MaxQuotaArg == 7    \* largest --max argument tried when only arguments vary
MaxFetchArg == 3    \* largest --max argument of a run followed request by request
MaxLiveId == 2      \* itemIds the live upstream returns: 1..MaxLiveId
LivePageLen == 2    \* longest page the live upstream returns
MaxQuery == 3       \* most query parameters on a /go/<offer> request

\* ------------------------------------------------------- program constants
DefaultMax == 10000
SafetyPages == 250
DefaultSize == 100

\* idFor() of a record that has neither itemId nor id: the empty string
NoId == 0

Min(a, b) == IF a < b THEN a ELSE b
Range(s) == {s[i] : i \in 1..Len(s)}
Take(s, n) == SubSeq(s, 1, Min(n, Len(s)))
SeqsUpTo(S, n) == UNION {[1..k -> S] : k \in 0..n}

\* ------------------------------------------------------------ pure helpers

\* normalizeBrand: String(s || "").toLowerCase().trim(), then the two synonym
\* collapses (any key containing "bonga" / "royal").  RawTokens are the raw
\* tokens the model feeds it; every other string here is already a key.
RawTokens == {"", "a", " A", "bonga", "bongacams"}
normalizeBrand(s) ==
  LET b == IF s = " A" THEN "a" ELSE s
  IN  IF b = "" THEN ""
      ELSE IF b \in {"bonga", "bongacams"} THEN "bongacams"
      ELSE IF b \in {"royal", "royalcams"} THEN "royalcams"
      ELSE b

\* .map(normalizeBrand).filter(Boolean)
RECURSIVE NormalizeAll(_)
NormalizeAll(toks) ==
  IF toks = <<>> THEN <<>>
  ELSE LET b == normalizeBrand(Head(toks))
       IN  (IF b = "" THEN <<>> ELSE <<b>>) \o NormalizeAll(Tail(toks))

\* splitBrands(s): the argument is given as the token list s.split(",") yields
\* (an absent --brands is "" and splits into the single token "").
splitBrands(toks) == NormalizeAll(toks)

DefaultBrands == <<"stripchat", "chaturbate", "awempire", "streamate">>

\* getDefaultBrandsFromConfig: cfg is crak.brands of site.config.json, <<>> when
\* the file or the key is missing.
getDefaultBrandsFromConfig(cfg) ==
  LET brands == NormalizeAll(cfg)
  IN  IF Len(brands) # 0 THEN brands ELSE DefaultBrands

\* Brands: CLI > config > default
BrandList(toks, cfg) ==
  LET desiredBrands == splitBrands(toks)
  IN  IF Len(desiredBrands) # 0 THEN desiredBrands ELSE getDefaultBrandsFromConfig(cfg)

\* let size = Number(arg("--size", "100")) || 100; < 1 and > 100 give 100,
\* lines 174-176.  The argument 0 stands for no (or a non-numeric) --size.
ParseSize(a) ==
  LET n == IF a = 0 THEN DefaultSize ELSE a
  IN  IF n < 1 \/ n > DefaultSize THEN DefaultSize ELSE n

\* let max = Number(arg("--max", "10000")) || 10000; if (max < 1) max = 10000
ParseMax(a) ==
  LET m == IF a = 0 THEN DefaultMax ELSE a
  IN  IF m < 1 THEN DefaultMax ELSE m

\* idFor: the record's identifier, NoId when it has none
idFor(p) == p.itemId

\* arraysEqual without the length test
arraysEqual_NoLength(a, b) ==
  \A i \in 1..Min(Len(a), Len(b)) : a[i] = b[i]

\* arraysEqual on two arrays
arraysEqual(a, b) ==
  /\ Len(a) = Len(b)
  /\ \A i \in 1..Len(a) : a[i] = b[i]

\* ---- Map (insertion ordered)
MapHas(m, id) == \E i \in 1..Len(m) : idFor(m[i]) = id
MapGet(m, id) == m[CHOOSE i \in 1..Len(m) : idFor(m[i]) = id]
MapSet(m, p) ==
  IF MapHas(m, idFor(p))
  THEN [i \in 1..Len(m) |-> IF idFor(m[i]) = idFor(p) THEN p ELSE m[i]]
  ELSE Append(m, p)
MapKeys(m) == [i \in 1..Len(m) |-> idFor(m[i])]

\* ---- process.env and .env
Unset == "<unset>"
EnvKeys == {"CRAK_API_KEY", "CRAK_KEY", "CRAK_TOKEN"}
EnvValues == {Unset, "", "k"}
Truthy(v) == v \notin {Unset, ""}

\* loadDotEnv: a line of .env sets a variable only when the environment does
\* not define it (dot[k] = Unset: no such line, or no .env file).
loadDotEnv(env, dot) ==
  [k \in EnvKeys |-> IF env[k] = Unset /\ dot[k] # Unset THEN dot[k] ELSE env[k]]

\* process.env.CRAK_API_KEY || process.env.CRAK_KEY || ""
ApiKeyOf(env) ==
  IF Truthy(env["CRAK_API_KEY"]) THEN env["CRAK_API_KEY"]
  ELSE IF Truthy(env["CRAK_KEY"]) THEN env["CRAK_KEY"] ELSE ""
\* process.env.CRAK_TOKEN || ""
TokenOf(env) == IF Truthy(env["CRAK_TOKEN"]) THEN env["CRAK_TOKEN"] ELSE ""

\* the credential test with && for ||
CredentialsMissing_Both(key, tok) == key = "" /\ tok = ""

\* if (!apiKey || !token) ... process.exit(1)
CredentialsMissing(key, tok) == key = "" \/ tok = ""

\* ---- previous datasets
NoPerf == [exists |-> FALSE, generatedAt |-> 0, brands |-> <<>>, count |-> 0,
           performers |-> <<>>]
NoCat == [exists |-> FALSE, generatedAt |-> 0, brands |-> <<>>, max |-> 0,
          count |-> 0, ids |-> <<>>]

\* for (const p of prevArr) if (id && !prevMap.has(id)) prevMap.set(id, p)
RECURSIVE LoadPrevMap(_, _)
LoadPrevMap(prevArr, m) ==
  IF prevArr = <<>> THEN m
  ELSE LET p == Head(prevArr)
       IN  LoadPrevMap(Tail(prevArr),
                       IF idFor(p) # NoId /\ ~MapHas(m, idFor(p)) THEN MapSet(m, p) ELSE m)

\* prevIds.map(String).filter(Boolean)
PrevIds(cat) == IF cat.exists THEN SelectSeq(cat.ids, LAMBDA x : x # NoId) ELSE <<>>
PrevBrands(cat) == IF cat.exists THEN NormalizeAll(cat.brands) ELSE <<>>

\* BrandsChanged comparing the brands as sets
BrandsChanged_AsSets(pb, bl) == Len(pb) # 0 /\ Range(pb) # Range(bl)

\* prevBrands.length && prevBrands.join(",") !== brandList.join(",")
\* (no key holds a comma, so the joined strings differ iff the lists differ)
BrandsChanged(pb, bl) == Len(pb) # 0 /\ pb # bl

\* NeedReseed without the brand change
NeedReseed_NoBrands(flag, pids, changed) == flag \/ Len(pids) = 0

\* reseed || !prevIds.length || brandsChanged, line 209
NeedReseed(flag, pids, changed) == flag \/ Len(pids) = 0 \/ changed

\* ---- quotas: quota.set(brandList[i], base + (i < extra ? 1 : 0)), i = 0..n-1;
\* a later entry of the same brand overwrites an earlier one.
QuotaShare(i, n, m) == (m \div n) + (IF i - 1 < m % n THEN 1 ELSE 0)
QuotaMap(bl, m) ==
  [b \in Range(bl) |->
     LET last_i == CHOOSE i \in 1..Len(bl) :
                     bl[i] = b /\ \A j \in 1..Len(bl) : bl[j] = b => j <= i
     IN  QuotaShare(last_i, Len(bl), m)]

\* ProcessPage without the seen.has(id) test
RECURSIVE ProcessPage_NoSeen(_, _, _, _)
ProcessPage_NoSeen(arr, list, sn, want) ==
  IF arr = <<>> THEN [list |-> list, seen |-> sn]
  ELSE LET p == Head(arr)
           id == idFor(p)
       IN  IF id = NoId
           THEN ProcessPage_NoSeen(Tail(arr), list, sn, want)
           ELSE IF Len(list) + 1 >= want
                THEN [list |-> Append(list, p), seen |-> sn \cup {id}]
                ELSE ProcessPage_NoSeen(Tail(arr), Append(list, p), sn \cup {id}, want)

\* ---- fetch loop body, lines 234-241: one returned page, record by record
RECURSIVE ProcessPage(_, _, _, _)
ProcessPage(arr, list, sn, want) ==
  IF arr = <<>> THEN [list |-> list, seen |-> sn]
  ELSE LET p == Head(arr)
           id == idFor(p)
       IN  IF id = NoId \/ id \in sn
           THEN ProcessPage(Tail(arr), list, sn, want)
           ELSE IF Len(list) + 1 >= want
                THEN [list |-> Append(list, p), seen |-> sn \cup {id}]
                ELSE ProcessPage(Tail(arr), Append(list, p), sn \cup {id}, want)

\* the next entry of brandList, from index i on, whose while loop issues a
\* request: quota > 0 and fewer records than the quota (lines 225-230)
RECURSIVE NextBrand(_, _, _, _)
NextBrand(i, bl, q, fbb) ==
  IF i > Len(bl) THEN i
  ELSE IF q[bl[i]] > 0 /\ Len(fbb[bl[i]]) < q[bl[i]] THEN i
  ELSE NextBrand(i + 1, bl, q, fbb)

\* for (const b of brandList) fresh.push(...freshByBrand.get(b)), lines 248-249
RECURSIVE Fresh(_, _)
Fresh(bl, fbb) == IF bl = <<>> THEN <<>> ELSE fbb[Head(bl)] \o Fresh(Tail(bl), fbb)

\* Merged that keeps the previous record of an identifier the table has
RECURSIVE Merged_PrevWins(_, _)
Merged_PrevWins(m, fr) ==
  IF fr = <<>> THEN m
  ELSE Merged_PrevWins(IF idFor(Head(fr)) = NoId \/ MapHas(m, idFor(Head(fr)))
                       THEN m ELSE MapSet(m, Head(fr)), Tail(fr))

\* merged = new Map(prevMap); fresh wins, lines 252-257
RECURSIVE Merged(_, _)
Merged(m, fr) ==
  IF fr = <<>> THEN m
  ELSE Merged(IF idFor(Head(fr)) = NoId THEN m ELSE MapSet(m, Head(fr)), Tail(fr))

\* RetainPrev without the merged.has(id) test
RECURSIVE RetainPrev_NoHas(_, _, _, _)
RetainPrev_NoHas(pids, mg, m, out) ==
  IF pids = <<>> THEN out
  ELSE LET id == Head(pids)
       IN  IF id \in Range(out)
           THEN RetainPrev_NoHas(Tail(pids), mg, m, out)
           ELSE IF Len(out) + 1 >= m THEN Append(out, id)
                ELSE RetainPrev_NoHas(Tail(pids), mg, m, Append(out, id))

\* lines 263-271: keep the previous order.  used is the set of pushed ids.
RECURSIVE RetainPrev(_, _, _, _)
RetainPrev(pids, mg, m, out) ==
  IF pids = <<>> THEN out
  ELSE LET id == Head(pids)
       IN  IF ~MapHas(mg, id) \/ id \in Range(out)
           THEN RetainPrev(Tail(pids), mg, m, out)
           ELSE IF Len(out) + 1 >= m THEN Append(out, id)
                ELSE RetainPrev(Tail(pids), mg, m, Append(out, id))

\* FillFresh without the used.has(id) test
RECURSIVE FillFresh_NoUsed(_, _, _)
FillFresh_NoUsed(fr, out, m) ==
  IF fr = <<>> \/ Len(out) >= m THEN out
  ELSE LET id == idFor(Head(fr))
       IN  IF id = NoId THEN FillFresh_NoUsed(Tail(fr), out, m)
           ELSE FillFresh_NoUsed(Tail(fr), Append(out, id), m)

\* lines 274-280: fill from the fresh records, in balanced fresh order
RECURSIVE FillFresh(_, _, _)
FillFresh(fr, out, m) ==
  IF fr = <<>> \/ Len(out) >= m THEN out
  ELSE LET id == idFor(Head(fr))
       IN  IF id = NoId \/ id \in Range(out) THEN FillFresh(Tail(fr), out, m)
           ELSE FillFresh(Tail(fr), Append(out, id), m)

\* lines 283-290: final fill from the merged table, in Map order
RECURSIVE FillMerged(_, _, _)
FillMerged(keys, out, m) ==
  IF keys = <<>> \/ Len(out) >= m THEN out
  ELSE IF Head(keys) \in Range(out) THEN FillMerged(Tail(keys), out, m)
       ELSE FillMerged(Tail(keys), Append(out, Head(keys)), m)

\* CatalogIds that keeps the previous order in a reseeding run too
CatalogIds_AlwaysRetain(need, pids, fr, mg, m) ==
  LET kept == RetainPrev(pids, mg, m, <<>>)
      filled == FillFresh(fr, kept, m)
  IN  IF Len(filled) < m THEN FillMerged(MapKeys(mg), filled, m) ELSE filled

\* lines 259-290
CatalogIds(need, pids, fr, mg, m) ==
  LET kept == IF ~need THEN RetainPrev(pids, mg, m, <<>>) ELSE <<>>
      filled == FillFresh(fr, kept, m)
  IN  IF Len(filled) < m THEN FillMerged(MapKeys(mg), filled, m) ELSE filled

\* outIds.map((id) => merged.get(id)).filter(Boolean), line 292
OutPerformers(ids, mg) ==
  LET have == SelectSeq(ids, LAMBDA id : MapHas(mg, id))
  IN  [i \in 1..Len(have) |-> MapGet(mg, have[i])]

\* needReseed || idsChanged || !prevCat, lines 314-317
CatalogWriteNeeded(need, pids, ids, m, prevExists) ==
  need \/ ~arraysEqual(Take(pids, m), ids) \/ ~prevExists

\* ------------------------------------------------------------------ state
VARIABLES
  perfFile, catFile,      \* data/performers.json, data/catalog.json
  now,                    \* number of the current run: the value of new Date()
  pc, exitCode,           \* where main() is / the exit status (-1: none yet)
  apiKey, token,
  max, reseed, brandList,
  prevPerf, prevCat, prevMap, prevIds, prevBrands,
  brandsChanged, needReseed, warned,
  quota, seen, freshByBrand, bi, page,
  fresh, merged, outIds, outPerformers,
  perf0, cat0,            \* history: the two files when the process started
  requests,               \* history: upstream requests issued by this run
  perfWritten, catWritten,\* history: this run wrote the file
  replay, last            \* this run repeats the last one / what the last run was

\* ------------------------------------------- functions/go/[offer].ts
\* A URL's query is modelled for the keys the handler reads or writes; a value
\* is Absent (searchParams.get gives null), "" (present and empty), or a
\* string that names where the value came from.
Absent == "<absent>"
AffKeys == {"aff_sub1", "aff_sub2", "aff_sub3", "aff_sub4", "aff_sub5"}
TrackKeys == {"pos", "b", "brand", "p", "page", "cat", "m", "id"}
QueryKeys == TrackKeys \cup AffKeys
NoQuery == [k \in QueryKeys |-> Absent]

\* the requests tried: at most MaxQuery parameters on the request URL, each
\* empty or carrying a value named after its key
GoQueries ==
  {q \in [QueryKeys -> {Absent, "", "v"}] :
     Cardinality({k \in QueryKeys : q[k] # Absent}) <= MaxQuery}
QueryValue(q, k) == IF q[k] = "v" THEN k ELSE q[k]

\* params.offer as sent, and String(params.offer || "").toLowerCase(), line 2
GoOffers == {"", "cams", "CAMS", "dating", "Dating", "guide", "constructor", "__proto__"}
toLowerCase(s) ==
  CASE s = "CAMS" -> "cams"
    [] s = "Dating" -> "dating"
    [] OTHER -> s

\* env.CAMS_URL / env.DATING_URL, lines 7-8: not set, set to "", or set to a
\* link that already carries aff_sub1 and an empty aff_sub2
GoEnvs == {"unset", "empty", "custom"}
\* the aff_sub parameters of the two built-in links, lines 12-13
DefaultDest(name) == [base |-> name, q |-> [k \in AffKeys |->
                        IF k = "aff_sub5" THEN "dest" ELSE Absent]]
CustomDest(name) == [base |-> name, q |-> [k \in AffKeys |->
                       CASE k = "aff_sub1" -> "dest"
                         [] k = "aff_sub2" -> ""
                         [] OTHER -> Absent]]
\* CAMS_URL || "https://...", lines 12-13
DestOf(name, e) == IF e = "custom" THEN CustomDest(name) ELSE DefaultDest(name)

\* DEST[offer], line 16: DEST is an object literal, so besides its own keys
\* cams and dating the lookup finds what Object.prototype has under an
\* all-lowercase name; such a value is truthy and is not a link.
InheritedKeys == {"constructor", "__proto__"}
NotALink == [base |-> "<not a link>", q |-> [k \in AffKeys |-> Absent]]
DestLookup(offer, camsEnv, datingEnv) ==
  CASE offer = "cams" -> DestOf("cams", camsEnv)
    [] offer = "dating" -> DestOf("dating", datingEnv)
    [] offer \in InheritedKeys -> NotALink
    [] OTHER -> DestOf("cams", camsEnv)

\* a || b || c over searchParams.get, lines 27-30
FirstTruthy(q, keys) ==
  LET hit == SelectSeq(keys, LAMBDA k : q[k] \notin {Absent, ""})
  IN  IF hit = <<>> THEN "" ELSE QueryValue(q, Head(hit))

\* lines 35-38: caller-provided aff_sub parameters are copied when non-empty
CopyAff(outq, q) ==
  [k \in AffKeys |-> IF q[k] \notin {Absent, ""} THEN QueryValue(q, k) ELSE outq[k]]

\* lines 40-43: if (v && !out.searchParams.get(k)) out.searchParams.set(k, v)
SetIfFree(outq, k, v) ==
  IF v # "" /\ outq[k] \in {Absent, ""} THEN [outq EXCEPT ![k] = v] ELSE outq

\* lines 27-30 and 40-43
Tracked(outq, q) ==
  LET pos == FirstTruthy(q, <<"pos">>)
      brand == FirstTruthy(q, <<"b", "brand">>)
      pg == FirstTruthy(q, <<"p", "page", "cat">>)
      m == FirstTruthy(q, <<"m", "id">>)
  IN  SetIfFree(SetIfFree(SetIfFree(SetIfFree(outq,
        "aff_sub1", brand), "aff_sub2", pos), "aff_sub3", pg), "aff_sub4", m)

NoResp == [status |-> 0, base |-> "", q |-> [k \in AffKeys |-> Absent]]
\* onRequestGet, lines 1-46; new URL(dest) throws for a value that is not a
\* link and the request fails (status 500)
GoHandler(offer, camsEnv, datingEnv, q) ==
  LET dest == DestLookup(toLowerCase(offer), camsEnv, datingEnv)
  IN  IF dest = NotALink
      THEN [status |-> 500, base |-> "", q |-> [k \in AffKeys |-> Absent]]
      ELSE [status |-> 302, base |-> dest.base, q |-> Tracked(CopyAff(dest.q, q), q)]

NoGoReq == [offer |-> "", camsEnv |-> "unset", datingEnv |-> "unset", q |-> NoQuery]

\* ------------------------------------------- functions/api/live.ts
MaxScanPages == 10
\* safeInt(n, def, min, max), lines 38-42.  A query argument is absent
\* (searchParams.get gives null, and Number(null) is 0), not a number, or a
\* number.
NoArg == [kind |-> "null", n |-> 0]
NotANumber == [kind |-> "nan", n |-> 0]
Num(n) == [kind |-> "num", n |-> n]
safeInt(a, def, lo, hi) ==
  IF a.kind = "nan" THEN def
  ELSE LET v == IF a.kind = "null" THEN 0 ELSE a.n
       IN  IF v < lo THEN lo ELSE IF v > hi THEN hi ELSE v

\* the topic parameter after trim(), and its wanted tags, lines 104-108
LiveTopics == {"", ",", "x", "x, y"}
Wants(topic) ==
  CASE topic = "x" -> {"x"}
    [] topic = "x, y" -> {"x", "y"}
    [] OTHER -> {}
\* an upstream record: its itemId as sent, and extractTagTokens() of it
LiveTags == {{}, {"x"}, {"y"}}
LiveRawIds == 0..(MaxLiveId + 1)
LiveRecords == [itemId : LiveRawIds, tags : LiveTags]
\* String(it?.itemId || "").trim(), line 252: 0 stands for a missing or empty
\* itemId, MaxLiveId + 1 for the itemId 1 sent with surrounding blanks
LiveKey(raw) == IF raw = MaxLiveId + 1 THEN 1 ELSE raw
\* matchesTopic, lines 103-114
matchesTopic(rec, topic) ==
  IF Wants(topic) = {} THEN TRUE ELSE Wants(topic) \cap rec.tags # {}

\* lines 251-258: the records of one page
RECURSIVE ScanItems(_, _, _)
ScanItems(items, acc, topic) ==
  IF items = <<>> THEN acc
  ELSE LET it == Head(items)
           id == LiveKey(it.itemId)
       IN  IF id = 0 \/ id \in acc.seen THEN ScanItems(Tail(items), acc, topic)
           ELSE ScanItems(Tail(items),
                  [seen |-> acc.seen \cup {id},
                   all |-> Append(acc.all, it),
                   hits |-> IF matchesTopic(it, topic) THEN Append(acc.hits, it)
                            ELSE acc.hits],
                  topic)

\* baseList.slice(start, start + size), lines 265-266
Slice(list, start, n) ==
  IF start >= Len(list) THEN <<>>
  ELSE SubSeq(list, start + 1, Min(start + n, Len(list)))

\* BaseList that falls back to all records in strict mode too
BaseList_AlwaysFallback(strict, hits, all) == IF hits # <<>> THEN hits ELSE all

\* lines 261-263
BaseList(strict, hits, all) ==
  IF strict THEN hits ELSE IF hits # <<>> THEN hits ELSE all

NoLiveReq == [page |-> 0, size |-> 0, topic |-> "", strictTopic |-> FALSE,
              secrets |-> FALSE]
NoLiveResp == [status |-> 0, ok |-> FALSE, mode |-> "none", performers |-> <<>>,
               topicApplied |-> FALSE, topicFallback |-> FALSE]

VARIABLES
  liveReq,                \* /api/live: the parsed request
  livePc,                 \* where the handler is
  liveP,                  \* the loop variable p of the topic scan
  liveAll, liveHits, liveSeen,
  liveSent,               \* history: upstream requests of this request
  liveResp

live == <<liveReq, livePc, liveP, liveAll, liveHits, liveSeen, liveSent, liveResp>>
LiveIdle ==
  /\ liveReq = NoLiveReq /\ livePc = "idle" /\ liveP = 0
  /\ liveAll = <<>> /\ liveHits = <<>> /\ liveSeen = {} /\ liveSent = 0
  /\ liveResp = NoLiveResp

\* ------------------------- functions/_middleware.ts and the / middleware
\* A request URL: its host and path as sent, and the keys of its query.
ApexHost == "nitevelour.com"
WwwHost == "www.nitevelour.com"
MwHosts == {"nitevelour.com", "NiteVelour.com", "www.nitevelour.com",
            "nitevelour.com.", "nitevelour.pages.dev"}
\* new URL(request.url) lower-cases the host name
ParseHost(h) == IF h = "NiteVelour.com" THEN "nitevelour.com" ELSE h
MwPaths == {"/", "/live/", "/guides/x"}
FilterKeys == {"brands", "gender", "page", "size", "sorting", "search", "live"}
MwQueryKeys == FilterKeys \cup {"utm_source"}
MwUrls == [host : MwHosts, path : MwPaths, query : SUBSET MwQueryKeys]
NoUrl == [host |-> "", path |-> "", query |-> {}]

\* functions/_middleware.ts, line 3
IsApex(u) == u.host = ApexHost
\* lines 4-5: the same URL on the www host
HostTarget(u) == [u EXCEPT !.host = WwwHost]

\* the / middleware, lines 5-8
HasFilters(u) == u.path = "/" /\ u.query \cap FilterKeys # {}
\* FilterTarget that keeps the path
FilterTarget_SamePath(u) == u
\* lines 9-11: the same URL with the path /live/
FilterTarget(u) == [u EXCEPT !.path = "/live/"]

VARIABLES
  mwUrl,                  \* the URL of the request being handled
  mwPc,                   \* idle, in a middleware, or passed on by next()
  mwStatus,               \* status of the last redirect (0: none)
  mwHostRedirects, mwFilterRedirects  \* history: redirects followed

mw == <<mwUrl, mwPc, mwStatus, mwHostRedirects, mwFilterRedirects>>
MwIdle ==
  /\ mwUrl = NoUrl /\ mwPc = "idle" /\ mwStatus = 0
  /\ mwHostRedirects = 0 /\ mwFilterRedirects = 0

VARIABLES
  goReq, goResp           \* /go/<offer>: the last request and its response

go == <<goReq, goResp>>
web == <<go, live, mw>>
WebIdle == goReq = NoGoReq /\ goResp = NoResp /\ LiveIdle /\ MwIdle

\* ---- the upstream requests of the sync tool, one by one
VARIABLES
  size,                   \* main(): the page size, lines 174-176
  inflight,               \* upstream requests sent and not yet answered
  lastReq,                \* history: the last request sent
  entryReqs,              \* history: requests sent by the running while loop
  lastArr                 \* history: what fetchPage returned last, and why

NoReq == [entry |-> 0, brand |-> "", page |-> 0, size |-> 0]
NoArr == [kind |-> "none", arr |-> <<>>]
wireLog == <<inflight, lastReq, entryReqs, lastArr>>
wire == <<size, wireLog>>
WireIdle ==
  size = 0 /\ inflight = 0 /\ lastReq = NoReq /\ entryReqs = 0 /\ lastArr = NoArr

files == <<perfFile, catFile>>
creds == <<apiKey, token>>
inputs == <<max, reseed, brandList, replay>>
loaded == <<prevPerf, prevCat, prevMap, prevIds, prevBrands, brandsChanged,
            needReseed, warned, quota>>
fetching == <<seen, freshByBrand, bi, page>>
result == <<fresh, merged, outIds, outPerformers>>
history == <<perf0, cat0, requests, perfWritten, catWritten>>
vars == <<files, now, pc, exitCode, creds, inputs, loaded, fetching, result,
          history, last, web, wire>>

NoLast == [valid |-> FALSE, max |-> 0, brandList |-> <<>>, reseed |-> FALSE,
           fetched |-> <<>>, outIds |-> <<>>]

Stopped == {"idle", "done", "exited", "aborted"}
Running == {"configure", "fetch", "reconcile", "writePerf", "writeCat"}

\* the identifiers of each brand's fresh records
FetchedIds(fbb) == [b \in DOMAIN fbb |-> MapKeys(fbb[b])]
IsPrefix(s, t) == Len(s) <= Len(t) /\ \A i \in 1..Len(s) : s[i] = t[i]

Init ==
  /\ perfFile = NoPerf /\ catFile = NoCat
  /\ now = 0 /\ pc = "idle" /\ exitCode = -1
  /\ apiKey = "" /\ token = ""
  /\ max = 0 /\ reseed = FALSE /\ brandList = <<>> /\ replay = FALSE
  /\ prevPerf = NoPerf /\ prevCat = NoCat /\ prevMap = <<>> /\ prevIds = <<>>
  /\ prevBrands = <<>> /\ brandsChanged = FALSE /\ needReseed = FALSE
  /\ warned = FALSE /\ quota = <<>>
  /\ seen = {} /\ freshByBrand = <<>> /\ bi = 0 /\ page = 0
  /\ fresh = <<>> /\ merged = <<>> /\ outIds = <<>> /\ outPerformers = <<>>
  /\ perf0 = NoPerf /\ cat0 = NoCat /\ requests = 0
  /\ perfWritten = FALSE /\ catWritten = FALSE
  /\ last = NoLast
  /\ WebIdle /\ WireIdle

\* the memory of a process that has not started, or is gone
ResetLocals ==
  /\ max' = 0 /\ reseed' = FALSE /\ brandList' = <<>> /\ replay' = FALSE
  /\ prevPerf' = NoPerf /\ prevCat' = NoCat /\ prevMap' = <<>> /\ prevIds' = <<>>
  /\ prevBrands' = <<>> /\ brandsChanged' = FALSE /\ needReseed' = FALSE
  /\ warned' = FALSE /\ quota' = <<>>
  /\ seen' = {} /\ freshByBrand' = <<>> /\ bi' = 0 /\ page' = 0
  /\ fresh' = <<>> /\ merged' = <<>> /\ outIds' = <<>> /\ outPerformers' = <<>>

\* ---------------------------------------------------------------- actions

\* A new process: loadDotEnv() and the credential check, lines 160-169.
Launch ==
  /\ pc \in Stopped
  /\ now < MaxRuns
  /\ now' = now + 1
  /\ perf0' = perfFile /\ cat0' = catFile /\ requests' = 0
  /\ perfWritten' = FALSE /\ catWritten' = FALSE
  /\ last' = IF pc = "done" THEN last ELSE NoLast
  /\ \E env \in [EnvKeys -> EnvValues], dot \in [EnvKeys -> {Unset, "k"}] :
       LET e == loadDotEnv(env, dot)
       IN  /\ apiKey' = ApiKeyOf(e) /\ token' = TokenOf(e)
           /\ IF CredentialsMissing(ApiKeyOf(e), TokenOf(e))
              THEN pc' = "exited" /\ exitCode' = 1
              ELSE pc' = "configure" /\ exitCode' = -1
  /\ ResetLocals
  /\ UNCHANGED <<files, web, wire>>

\* Lines 171-223 with the given arguments: parse, load the previous datasets,
\* decide the reseed, compute the quotas, and reach the first request.
ConfigureWith(m, flag, bl, rep) ==
  LET pm == LoadPrevMap(IF perfFile.exists THEN perfFile.performers ELSE <<>>, <<>>)
      pids == PrevIds(catFile)
      pb == PrevBrands(catFile)
      changed == BrandsChanged(pb, bl)
      q == QuotaMap(bl, m)
      fbb == [b \in Range(bl) |-> <<>>]
      first == NextBrand(1, bl, q, fbb)
  IN  /\ max' = m /\ reseed' = flag /\ brandList' = bl /\ replay' = rep
      /\ prevPerf' = perfFile /\ prevCat' = catFile
      /\ prevMap' = pm /\ prevIds' = pids /\ prevBrands' = pb
      /\ brandsChanged' = changed
      /\ needReseed' = NeedReseed(flag, pids, changed)
      /\ warned' = (changed /\ ~flag)
      /\ quota' = q
      /\ seen' = {} /\ freshByBrand' = fbb
      /\ bi' = first /\ page' = 1
      /\ pc' = IF first > Len(bl) THEN "reconcile" ELSE "fetch"
      /\ UNCHANGED <<files, now, exitCode, creds, result, history, web, wireLog>>

\* the --brands arguments of the full runs, as token lists
BrandArgs == {<<"a">>, <<"a", "bonga">>, <<"bongacams", "a">>, <<"a", " A">>}
\* crak.brands of site.config.json: missing, or one brand
ConfigBrands == {<<>>, <<"bonga">>}

Configure ==
  /\ pc = "configure"
  /\ \/ \E a \in 1..MaxArg, flag \in BOOLEAN, toks \in BrandArgs :
          /\ ConfigureWith(ParseMax(a), flag, BrandList(toks, <<>>), FALSE)
          /\ size' = ParseSize(0)
          /\ last' = NoLast
     \/ /\ last.valid /\ ~last.reseed
        /\ ConfigureWith(last.max, FALSE, last.brandList, TRUE)
        /\ size' = ParseSize(0)
        /\ UNCHANGED last

\* The pages the upstream may answer a request for page number pg with:
\* anything, and nothing beyond its last page.  An empty page is also what
\* fetchPage returns for a non-2xx status or unparsable JSON.
Answers(pg) ==
  IF pg > UpstreamPages THEN {<<>>} ELSE SeqsUpTo(0..MaxId, PageLen)

\* One iteration of the while loop, lines 230-245: the request, the records of
\* the page, page += 1, and the three ways the brand's loop ends.  A run that
\* repeats the last run gets the same answers to the same requests, hence
\* fetches what the last run fetched (last.fetched).
FetchPage ==
  /\ pc = "fetch"
  /\ \E ids \in Answers(page) :
       LET brand == brandList[bi]
           want == quota[brand]
           arr == [i \in 1..Len(ids) |-> [itemId |-> ids[i], at |-> now]]
           got == ProcessPage(arr, freshByBrand[brand], seen, want)
           fbb == [freshByBrand EXCEPT ![brand] = got.list]
           ends == \/ Len(arr) = 0
                   \/ Len(got.list) >= want
                   \/ page + 1 > SafetyPages
           nxt == IF ends THEN NextBrand(bi + 1, brandList, quota, fbb) ELSE bi
       IN  /\ replay =>
                /\ \A b \in DOMAIN fbb : IsPrefix(MapKeys(fbb[b]), last.fetched[b])
                /\ nxt > Len(brandList) => FetchedIds(fbb) = last.fetched
           /\ requests' = requests + 1
           /\ freshByBrand' = fbb
           /\ seen' = got.seen
           /\ bi' = nxt
           /\ page' = IF ends THEN 1 ELSE page + 1
           /\ pc' = IF nxt > Len(brandList) THEN "reconcile" ELSE "fetch"
  /\ UNCHANGED <<files, now, exitCode, creds, inputs, loaded, result, perf0, cat0,
                 perfWritten, catWritten, last, web, wire>>

\* fetch() rejects (no network): main().catch logs and exits 1, lines 328-331.
FetchThrows ==
  /\ pc = "fetch"
  /\ pc' = "exited" /\ exitCode' = 1
  /\ requests' = requests + 1
  /\ ResetLocals
  /\ UNCHANGED <<files, now, creds, perf0, cat0, perfWritten, catWritten, last,
                 web, wire>>

\* Lines 248-299.
Reconcile ==
  /\ pc = "reconcile"
  /\ LET fr == Fresh(brandList, freshByBrand)
         mg == Merged(prevMap, fr)
         ids == CatalogIds(needReseed, prevIds, fr, mg, max)
     IN  /\ fresh' = fr /\ merged' = mg /\ outIds' = ids
         /\ outPerformers' = OutPerformers(ids, mg)
  /\ pc' = "writePerf"
  /\ UNCHANGED <<files, now, exitCode, creds, inputs, loaded, fetching, history,
                 last, web, wire>>

\* Write performers.json (always), lines 301-310.
WritePerformers ==
  /\ pc = "writePerf"
  /\ perfFile' = [exists |-> TRUE, generatedAt |-> now, brands |-> brandList,
                  count |-> Len(outPerformers), performers |-> outPerformers]
  /\ perfWritten' = TRUE
  /\ pc' = "writeCat"
  /\ UNCHANGED <<catFile, now, exitCode, creds, inputs, loaded, fetching, result,
                 perf0, cat0, requests, catWritten, last, web, wire>>

\* Write catalog.json only if it changes, lines 312-326, and return.
WriteCatalog ==
  /\ pc = "writeCat"
  /\ IF CatalogWriteNeeded(needReseed, prevIds, outIds, max, prevCat.exists)
     THEN /\ catFile' = [exists |-> TRUE, generatedAt |-> now, brands |-> brandList,
                         max |-> max, count |-> Len(outIds), ids |-> outIds]
          /\ catWritten' = TRUE
     ELSE UNCHANGED <<catFile, catWritten>>
  /\ pc' = "done" /\ exitCode' = 0
  /\ last' = [valid |-> TRUE, max |-> max, brandList |-> brandList,
              reseed |-> reseed, fetched |-> FetchedIds(freshByBrand),
              outIds |-> outIds]
  /\ UNCHANGED <<perfFile, now, creds, inputs, loaded, fetching, result,
                 perf0, cat0, requests, perfWritten, web, wire>>

\* The process is killed (or the machine stops) at any point of the run.
Abort ==
  /\ pc \in Running
  /\ pc' = "aborted" /\ exitCode' = 1
  /\ ResetLocals
  /\ UNCHANGED <<files, now, creds, history, last, web, wire>>

Next ==
  \/ Launch
  \/ Configure
  \/ FetchPage
  \/ FetchThrows
  \/ Reconcile
  \/ WritePerformers
  \/ WriteCatalog
  \/ Abort

Spec == Init /\ [][Next]_vars

\* The start of a run alone, over a wider range of arguments: any --max from
\* -1 (0 and -1 fall back to the default), any --brands of up to MaxTokens
\* tokens (the empty token list entry stands for no --brands), any config.
ConfigureArgs ==
  /\ pc = "configure"
  /\ \E a \in -1..MaxQuotaArg, flag \in BOOLEAN,
        toks \in SeqsUpTo(RawTokens, MaxTokens) \ {<<>>}, cfg \in ConfigBrands :
       ConfigureWith(ParseMax(a), flag, BrandList(toks, cfg), FALSE)
  /\ size' = ParseSize(0)
  /\ last' = NoLast

NextArgs ==
  \/ Launch
  \/ ConfigureArgs

SpecArgs == Init /\ [][NextArgs]_vars

\* GET /go/<offer>: one request, answered in one step.  The handler keeps
\* nothing between requests, so a behaviour holds one request.
GoRequest ==
  /\ goResp = NoResp
  /\ \E offer \in GoOffers, ce \in GoEnvs, de \in GoEnvs, q \in GoQueries :
       /\ goReq' = [offer |-> offer, camsEnv |-> ce, datingEnv |-> de, q |-> q]
       /\ goResp' = GoHandler(offer, ce, de, q)
  /\ UNCHANGED <<files, now, pc, exitCode, creds, inputs, loaded, fetching, result,
                 history, last, wire, live, mw>>

NextGo ==
  \/ GoRequest

SpecGo == Init /\ [][NextGo]_vars

\* ---- one sync run, request by request, against an upstream that never runs
\* out of pages.  An HTTP response, as fetchPage sees it: res.ok, whether the
\* body parses as JSON, and the performers array of the parsed body.
FetchPages == {<<>>, <<0>>, <<1>>, <<1, 2>>}
FetchResponses ==
  {[ok |-> FALSE, json |-> TRUE, performers |-> <<1>>],
   [ok |-> TRUE, json |-> FALSE, performers |-> <<>>]}
  \cup {[ok |-> TRUE, json |-> TRUE, performers |-> pg] : pg \in FetchPages}
\* fetchPage that reads the body whatever the status
fetchPage_AnyStatus(r) ==
  IF ~r.json THEN [kind |-> "malformed", arr |-> <<>>]
  ELSE [kind |-> IF r.ok THEN "page" ELSE "status", arr |-> r.performers]

\* fetchPage, lines 112-142: [] for a non-2xx status and for unparsable JSON
fetchPage(r) ==
  IF ~r.ok THEN [kind |-> "status", arr |-> <<>>]
  ELSE IF ~r.json THEN [kind |-> "malformed", arr |-> <<>>]
  ELSE [kind |-> "page", arr |-> r.performers]

\* LoopEnds without the safety cap
LoopEnds_NoCap(arrLen, have, want, pg) == arrLen = 0 \/ have >= want

\* the three ways out of the while loop, lines 230, 232 and 244, seen after
\* the page was processed: pg is the page number just requested
LoopEnds(arrLen, have, want, pg) ==
  arrLen = 0 \/ have >= want \/ pg + 1 > SafetyPages

\* the first process on an empty data directory
LaunchFirst ==
  /\ now = 0
  /\ Launch

FetchBrandArgs == {<<"a">>, <<"a", "b">>, <<"a", "a">>}
SizeArgs == {-1, 0, 1, 101}
ConfigureFetch ==
  /\ pc = "configure"
  /\ \E a \in 1..MaxFetchArg, toks \in FetchBrandArgs, sz \in SizeArgs :
       /\ ConfigureWith(ParseMax(a), FALSE, BrandList(toks, <<>>), FALSE)
       /\ size' = ParseSize(sz)
  /\ last' = NoLast

\* await fetchPage({..., brand, page, size}): the request leaves, line 231.
\* Requests are counted per while loop here (entryReqs), not per run.
SendRequest ==
  /\ pc = "fetch"
  /\ pc' = "await"
  /\ inflight' = inflight + 1
  /\ lastReq' = [entry |-> bi, brand |-> brandList[bi], page |-> page, size |-> size]
  /\ entryReqs' = IF lastReq.entry = bi THEN entryReqs + 1 ELSE 1
  /\ UNCHANGED <<files, now, exitCode, creds, inputs, loaded, fetching, result,
                 history, last, web, size, lastArr>>

\* ... and is answered: the rest of the loop body, lines 232-244
ReceivePage ==
  /\ pc = "await"
  /\ \E r \in FetchResponses :
       LET brand == brandList[bi]
           want == quota[brand]
           got == fetchPage(r)
           arr == [i \in 1..Len(got.arr) |-> [itemId |-> got.arr[i], at |-> now]]
           pp == ProcessPage(arr, freshByBrand[brand], seen, want)
           fbb == [freshByBrand EXCEPT ![brand] = pp.list]
           ends == LoopEnds(Len(arr), Len(pp.list), want, page)
           nxt == IF ends THEN NextBrand(bi + 1, brandList, quota, fbb) ELSE bi
       IN  /\ lastArr' = got
           /\ freshByBrand' = IF Len(arr) = 0 THEN freshByBrand ELSE fbb
           /\ seen' = IF Len(arr) = 0 THEN seen ELSE pp.seen
           /\ bi' = nxt
           /\ page' = IF ends THEN 1 ELSE page + 1
           /\ pc' = IF nxt > Len(brandList) THEN "reconcile" ELSE "fetch"
  /\ inflight' = inflight - 1
  /\ UNCHANGED <<files, now, exitCode, creds, inputs, loaded, result, history, last,
                 web, size, lastReq, entryReqs>>

\* ... or fetch() rejects (the connection fails): main().catch, lines 328-331
FetchRejects ==
  /\ pc = "await"
  /\ pc' = "exited" /\ exitCode' = 1
  /\ inflight' = inflight - 1
  /\ lastArr' = [kind |-> "rejected", arr |-> <<>>]
  /\ UNCHANGED <<files, now, creds, inputs, loaded, fetching, result, history, last,
                 web, size, lastReq, entryReqs>>

NextFetch ==
  \/ LaunchFirst
  \/ ConfigureFetch
  \/ SendRequest
  \/ ReceivePage
  \/ FetchRejects
  \/ Reconcile
  \/ WritePerformers
  \/ WriteCatalog

\* The process runs on while it can, and every request sent is answered or
\* rejected: main() awaits nothing else.
SpecFetch == Init /\ [][NextFetch]_vars /\ WF_vars(NextFetch)

\* ---- GET /api/live: one request, its upstream requests one by one
sync == <<files, now, pc, exitCode, creds, inputs, loaded, fetching, result,
          history, last, wire>>
LivePageArgs == {NoArg, Num(2)}
LiveSizeArgs == {NoArg, NotANumber, Num(2), Num(61)}
LiveItems == SeqsUpTo(LiveRecords, LivePageLen)

\* lines 135-170 and 217-223
LiveRequest ==
  /\ livePc = "idle"
  /\ \E pa \in LivePageArgs, sa \in LiveSizeArgs, topic \in LiveTopics,
        strict \in BOOLEAN, secrets \in BOOLEAN :
       /\ liveReq' = [page |-> safeInt(pa, 1, 1, 500), size |-> safeInt(sa, 24, 1, 60),
                      topic |-> topic, strictTopic |-> strict, secrets |-> secrets]
       /\ IF ~secrets
          THEN /\ livePc' = "done"
               /\ liveResp' = [NoLiveResp EXCEPT !.status = 500, !.mode = "error"]
          ELSE /\ livePc' = IF topic = "" THEN "fast" ELSE "scan"
               /\ UNCHANGED liveResp
  /\ liveP' = 1 /\ liveAll' = <<>> /\ liveHits' = <<>> /\ liveSeen' = {}
  /\ liveSent' = 0
  /\ UNCHANGED <<sync, go, mw>>

\* the fast path, lines 170-214: one upstream request, passed through
LiveFast ==
  /\ livePc = "fast"
  /\ liveSent' = liveSent + 1
  /\ livePc' = "done"
  /\ \E ok \in BOOLEAN, items \in LiveItems :
       liveResp' = IF ~ok THEN [NoLiveResp EXCEPT !.status = 502, !.mode = "error"]
                   ELSE [NoLiveResp EXCEPT !.status = 200, !.ok = TRUE, !.mode = "fast",
                                          !.performers = items]
  /\ UNCHANGED <<sync, go, mw, liveReq, liveP, liveAll, liveHits, liveSeen>>

\* the loop condition of the topic scan, line 225
ScanGoesOn ==
  /\ liveP <= MaxScanPages
  /\ (IF liveReq.strictTopic THEN Len(liveHits) ELSE Len(liveAll))
       < liveReq.page * liveReq.size

\* one iteration of the topic scan, lines 225-259
LiveScan ==
  /\ livePc = "scan" /\ ScanGoesOn
  /\ liveSent' = liveSent + 1
  /\ \E ok \in BOOLEAN, items \in LiveItems :
       IF ~ok
       THEN /\ livePc' = "done"
            /\ liveResp' = [NoLiveResp EXCEPT !.status = 502, !.mode = "error"]
            /\ UNCHANGED <<liveP, liveAll, liveHits, liveSeen>>
       ELSE LET acc == ScanItems(items, [seen |-> liveSeen, all |-> liveAll,
                                         hits |-> liveHits], liveReq.topic)
            IN  /\ liveAll' = acc.all /\ liveHits' = acc.hits /\ liveSeen' = acc.seen
                /\ liveP' = liveP + 1
                /\ UNCHANGED <<livePc, liveResp>>
  /\ UNCHANGED <<sync, go, mw, liveReq>>

\* fetchUpstream throws (the 8 or 9 second timeout aborts the request, or the
\* connection fails): the handler does not catch it
LiveUpstreamThrows ==
  /\ \/ livePc = "fast"
     \/ livePc = "scan" /\ ScanGoesOn
  /\ liveSent' = liveSent + 1
  /\ livePc' = "done"
  /\ liveResp' = [NoLiveResp EXCEPT !.status = 500, !.mode = "error"]
  /\ UNCHANGED <<sync, go, mw, liveReq, liveP, liveAll, liveHits, liveSeen>>

\* the response of topic mode, lines 261-286
LiveRespond ==
  /\ livePc = "scan" /\ ~ScanGoesOn
  /\ livePc' = "done"
  /\ liveResp' =
       [status |-> 200, ok |-> TRUE, mode |-> "topic",
        performers |-> Slice(BaseList(liveReq.strictTopic, liveHits, liveAll),
                             (liveReq.page - 1) * liveReq.size, liveReq.size),
        topicApplied |-> (liveReq.topic # ""
                            /\ (IF liveReq.strictTopic THEN TRUE ELSE Len(liveHits) > 0)),
        topicFallback |-> (liveReq.topic # "" /\ ~liveReq.strictTopic
                             /\ Len(liveHits) = 0)]
  /\ UNCHANGED <<sync, go, mw, liveReq, liveP, liveAll, liveHits, liveSeen, liveSent>>

NextLive ==
  \/ LiveRequest
  \/ LiveFast
  \/ LiveScan
  \/ LiveUpstreamThrows
  \/ LiveRespond

SpecLive == Init /\ [][NextLive]_vars

\* ---- a browser request through the two middlewares, redirects followed
MwArrive ==
  /\ mwPc = "idle"
  /\ \E u \in MwUrls : mwUrl' = [u EXCEPT !.host = ParseHost(u.host)]
  /\ mwPc' = "host"
  /\ UNCHANGED <<sync, go, live, mwStatus, mwHostRedirects, mwFilterRedirects>>

\* functions/_middleware.ts, lines 1-8; the browser follows the redirect
HostMiddleware ==
  /\ mwPc = "host"
  /\ IF IsApex(mwUrl)
     THEN /\ mwUrl' = HostTarget(mwUrl) /\ mwStatus' = 301
          /\ mwHostRedirects' = mwHostRedirects + 1
          /\ UNCHANGED mwPc
     ELSE /\ mwPc' = "filter"
          /\ UNCHANGED <<mwUrl, mwStatus, mwHostRedirects>>
  /\ UNCHANGED <<sync, go, live, mwFilterRedirects>>

\* the / middleware, lines 1-16; the browser follows the redirect
FilterMiddleware ==
  /\ mwPc = "filter"
  /\ IF HasFilters(mwUrl)
     THEN /\ mwUrl' = FilterTarget(mwUrl) /\ mwStatus' = 302
          /\ mwFilterRedirects' = mwFilterRedirects + 1
          /\ mwPc' = "host"
     ELSE /\ mwPc' = "next"
          /\ UNCHANGED <<mwUrl, mwStatus, mwFilterRedirects>>
  /\ UNCHANGED <<sync, go, live, mwHostRedirects>>

NextMw ==
  \/ MwArrive
  \/ HostMiddleware
  \/ FilterMiddleware

\* the platform runs the middlewares and the browser follows each redirect
SpecMw == Init /\ [][NextMw]_vars /\ WF_vars(NextMw)

\* ================================================================ claims

\* main() has built outIds (and everything before it)
Built == pc \in {"writePerf", "writeCat", "done"}
NoDuplicates(q) == \A i, j \in 1..Len(q) : q[i] = q[j] => i = j
\* position of id in q (0 when absent)
IndexOf(q, id) == IF id \in Range(q) THEN CHOOSE i \in 1..Len(q) : q[i] = id ELSE 0

\* C1: the catalog identifier list a run produces has at most max entries and
\* holds no identifier twice, whatever the previous files, the upstream
\* answers and the reseed flag.
C1_CatalogBoundedNoDuplicates ==
  Built => Len(outIds) <= max /\ NoDuplicates(outIds)

\* C1 witness: a completed run that fills the catalog up to max from a kept
\* identifier and fresh records, one of which repeats the kept identifier.
C1_Witness ==
  /\ pc = "done" /\ ~needReseed
  /\ Len(outIds) = max /\ max = 2 /\ Len(fresh) = 2
  /\ \E i \in 1..Len(fresh) : idFor(fresh[i]) \in Range(prevIds)

\* the identifiers of the previous catalog that the merged table holds, in the
\* previous catalog's order
KeptCandidates == SelectSeq(prevIds, LAMBDA id : MapHas(merged, id))

\* C2 as stated: without reseed flag and brand change, EVERY identifier that is
\* in the previous catalog and in the merged table is in the new catalog, in
\* the previous relative order and before every identifier that was not in the
\* previous catalog.
C2_Original ==
  (Built /\ ~reseed /\ ~brandsChanged) =>
     /\ \A id \in Range(KeptCandidates) : id \in Range(outIds)
     /\ \A a, b \in Range(KeptCandidates) :
          IndexOf(prevIds, a) < IndexOf(prevIds, b) =>
            IndexOf(outIds, a) < IndexOf(outIds, b)
     /\ \A a \in Range(KeptCandidates), b \in Range(outIds) \ Range(prevIds) :
          IndexOf(outIds, a) < IndexOf(outIds, b)

\* C2 amended: without reseed flag and brand change, the new catalog begins
\* with the identifiers that are in the previous catalog and in the merged
\* table, in the previous catalog's order, cut after the first max of them
\* (those beyond max are dropped); hence the ones kept stand in their previous
\* relative order, before every identifier new to the catalog.
C2_KeptPrefix ==
  (Built /\ ~reseed /\ ~brandsChanged) =>
     /\ IsPrefix(Take(KeptCandidates, max), outIds)
     /\ \A a \in Range(Take(KeptCandidates, max)), b \in Range(outIds) \ Range(prevIds) :
          IndexOf(outIds, a) < IndexOf(outIds, b)

\* C2 witness: a completed run without reseed whose previous catalog holds an
\* identifier the merged table lacks: the other one is kept, in first place.
C2_Witness ==
  /\ pc = "done" /\ ~reseed /\ ~brandsChanged
  /\ Len(prevIds) = 2 /\ Len(KeptCandidates) = 1
  /\ max = 2 /\ outIds = KeptCandidates

\* C3: a run that repeats the last run (same max, same brand list, no reseed
\* flag, the same upstream answers) computes the same catalog identifiers and
\* leaves the catalog file as the last run left it.  (Stated for brand lists
\* without a repeated brand, where the quotas are the intended ones.)
C3_Idempotent ==
  (pc = "done" /\ replay /\ NoDuplicates(brandList)) =>
     /\ outIds = last.outIds
     /\ ~catWritten
     /\ catFile = cat0

\* the table file has a record for every identifier of the catalog file
Covers(perf, cat) ==
  Range(cat.ids) \subseteq {idFor(perf.performers[i]) : i \in 1..Len(perf.performers)}

\* C4: after a completed run, every identifier of the persisted catalog has a
\* record in the persisted performer table.
C4_TableCoversCatalog ==
  pc = "done" => Covers(perfFile, catFile)

RECURSIVE SumQuota(_)
SumQuota(i) == IF i = 0 THEN 0 ELSE quota[brandList[i]] + SumQuota(i - 1)

\* C5: the quotas the fetch loop uses sum to max over the entries of the brand
\* list, differ by at most one, and the first (max mod N) entries get the extra
\* one.
C5_QuotasSumToMax ==
  pc \in {"fetch", "reconcile"} =>
     LET n == Len(brandList)
     IN  /\ SumQuota(n) = max
         /\ \A i, j \in 1..n :
              quota[brandList[i]] - quota[brandList[j]] \in {-1, 0, 1}
         /\ \A i \in 1..n :
              quota[brandList[i]] = (max \div n) + (IF i <= max % n THEN 1 ELSE 0)

\* C6: a run that stops before completing (a fatal error, or an abort at any
\* step) leaves both files as they were when it started.
C6_NoPartialState ==
  pc \in {"aborted", "exited"} => perfFile = perf0 /\ catFile = cat0

\* main() has taken the reseed decision
Configured == pc \in {"fetch", "reconcile", "writePerf", "writeCat", "done"}

\* the relative order of the identifiers common to p and q is the same in both
SameRelativeOrder(p, q) ==
  \A a, b \in Range(p) \cap Range(q) :
     IndexOf(p, a) < IndexOf(p, b) => IndexOf(q, a) < IndexOf(q, b)

\* s without its repeats (the first occurrence stays)
RECURSIVE Distinct(_)
Distinct(q) ==
  IF q = <<>> THEN <<>>
  ELSE LET r == Distinct(SubSeq(q, 1, Len(q) - 1))
       IN  IF q[Len(q)] \in Range(r) THEN r ELSE Append(r, q[Len(q)])

\* the catalog of a run that takes nothing from the previous catalog's order
RebuiltIds == Take(Distinct(MapKeys(fresh) \o MapKeys(merged)), max)

\* C7 as stated: a run reseeds if and only if the reseed flag is set, or no
\* previous catalog exists, or the brand SET of the run differs from the
\* recorded one.  (Stated for runs over a previous catalog that holds
\* identifiers, and brand lists without a repeated brand.)
C7_Original ==
  (Configured /\ Len(prevIds) > 0 /\ NoDuplicates(brandList)
              /\ NoDuplicates(prevBrands)) =>
    (needReseed <=> \/ reseed
                    \/ ~prevCat.exists
                    \/ Range(prevBrands) # Range(brandList))

\* C7 amended: a run reseeds if and only if the reseed flag is set, or the
\* previous catalog is missing or holds no identifier, or it records a brand
\* list that differs, as an ordered list, from the run's; a reseeding run
\* builds the catalog without the previous order, and every other run keeps
\* the retained identifiers in their previous relative order.
C7_ReseedDecision ==
  /\ Configured =>
       (needReseed <=> \/ reseed
                       \/ Len(prevIds) = 0
                       \/ (prevBrands # <<>> /\ prevBrands # brandList))
  /\ (Built /\ needReseed) => outIds = RebuiltIds
  /\ (Built /\ ~needReseed) => SameRelativeOrder(prevIds, outIds)

\* C7 witness: a completed run without the flag that names the recorded brands
\* in another order, reseeds, and turns the previous order around.
C7_Witness ==
  /\ pc = "done" /\ ~reseed /\ needReseed
  /\ Range(prevBrands) = Range(brandList) /\ prevBrands # brandList
  /\ Len(prevIds) = 2 /\ outIds = <<prevIds[2], prevIds[1]>>

\* C8: a run without --reseed whose brand list differs from the one the
\* previous catalog records builds the catalog, and decides the catalog write,
\* as the same run with --reseed does, and warns about the brand change.
C8_BrandChangeIsReseed ==
  (Built /\ brandsChanged /\ ~reseed) =>
     LET asFlagged == NeedReseed(TRUE, prevIds, brandsChanged)
     IN  /\ warned
         /\ outIds = CatalogIds(asFlagged, prevIds, fresh, merged, max)
         /\ pc = "done" =>
              (catWritten <=>
                 CatalogWriteNeeded(asFlagged, prevIds, outIds, max, prevCat.exists))

\* C8 witness: such a run, completed, that did not keep the previous order.
C8_Witness ==
  /\ pc = "done" /\ brandsChanged /\ ~reseed /\ warned /\ catWritten
  /\ Len(prevIds) = 2 /\ Len(outIds) = 2 /\ outIds[1] = prevIds[2]

C10_MissingCredentials ==
  (pc # "idle" /\ (apiKey = "" \/ token = "")) =>
     /\ pc = "exited" /\ exitCode = 1
     /\ requests = 0
     /\ ~perfWritten /\ ~catWritten
     /\ perfFile = perf0 /\ catFile = cat0

\* C10 witness: a run started over existing files with a key and no token.
C10_Witness ==
  /\ pc = "exited" /\ apiKey = "k" /\ token = ""
  /\ perfFile.exists /\ catFile.exists

\* ---- C11
\* what the request's own aff_sub parameter k puts on the outgoing URL
CallerAff(k) == goReq.q[k] \notin {Absent, ""}
\* the destination configured for the offer of the last /go/ request
GoWanted ==
  IF toLowerCase(goReq.offer) = "dating" THEN DestOf("dating", goReq.datingEnv)
  ELSE DestOf("cams", goReq.camsEnv)

\* C11: every /go/<offer> request is answered 302 with the destination of the
\* offer (cams for any offer other than cams and dating), and an aff_sub1..4
\* that the destination or the caller already put on the outgoing URL keeps
\* that value: the tracking value never replaces it.
C11_RedirectKeepsAffSub ==
  goResp.status # 0 =>
    /\ goResp.status = 302
    /\ goResp.base = GoWanted.base
    /\ \A k \in AffKeys \ {"aff_sub5"} :
         /\ CallerAff(k) => goResp.q[k] = QueryValue(goReq.q, k)
         /\ (~CallerAff(k) /\ GoWanted.q[k] # Absent) => goResp.q[k] = GoWanted.q[k]

\* the two parts of C11 apart: the status and destination ...
C11_Always302 ==
  goResp.status # 0 => goResp.status = 302 /\ goResp.base = GoWanted.base
\* ... and the aff_sub parameters of the requests that were redirected
C11_NoOverwrite ==
  goResp.status = 302 =>
    \A k \in AffKeys \ {"aff_sub5"} :
      /\ CallerAff(k) => goResp.q[k] = QueryValue(goReq.q, k)
      /\ (~CallerAff(k) /\ GoWanted.q[k] # Absent) => goResp.q[k] = GoWanted.q[k]

\* ---- C12
\* the while loop of the current brand-list entry is about to send a request
LoopRuns == pc = "fetch"
WritePhase == pc \in {"writePerf", "writeCat", "done"}
\* a loop sends at most 250 requests, and goes on to a further request only
\* while the quota is not met, the last page was not empty and fewer than 250
\* pages were requested
LoopBounded ==
  /\ entryReqs <= SafetyPages
  /\ LoopRuns =>
       /\ quota[brandList[bi]] > 0
       /\ Len(freshByBrand[brandList[bi]]) < quota[brandList[bi]]
  /\ (LoopRuns /\ page > 1) =>
       /\ lastReq.entry = bi
       /\ lastArr.arr # <<>>
       /\ entryReqs < SafetyPages

\* C12 as stated: each loop ends on quota met, empty page or 250 pages, and
\* whatever the upstream does, a run that has started fetching reaches the
\* write phase.
C12_Original ==
  /\ []LoopBounded
  /\ (pc \in {"fetch", "await"}) ~> WritePhase

\* C12: each brand-list entry's loop ends on quota met, empty page or 250
\* pages requested, so it sends at most 250 requests; and when every request
\* is answered by an HTTP response (no request is rejected), a run that has
\* started fetching reaches the write phase.
C12_LoopEnds ==
  /\ []LoopBounded
  /\ (pc \in {"fetch", "await"}) ~> (WritePhase \/ lastArr.kind = "rejected")

\* the safety cap ended a loop: 250 requests, the last page not empty, the
\* quota not met, and the run went on to write
C12_Witness ==
  /\ WritePhase
  /\ entryReqs = SafetyPages
  /\ lastArr.arr # <<>>
  /\ Len(freshByBrand[lastReq.brand]) < quota[lastReq.brand]

\* ---- C13
\* the answer just received is a non-2xx status, unparsable JSON or an empty page
BadPageStep ==
  /\ pc = "await"
  /\ \/ lastArr'.kind \in {"status", "malformed"}
     \/ lastArr'.kind = "page" /\ lastArr'.arr = <<>>
\* the loop of the entry ends with its records as they were, the run moves on
\* to the next entry that fetches (or to the reconciliation), without an error
KeepsAndMovesOn ==
  /\ freshByBrand' = freshByBrand /\ seen' = seen
  /\ bi' = NextBrand(bi + 1, brandList, quota, freshByBrand)
  /\ page' = 1
  /\ pc' = IF bi' > Len(brandList) THEN "reconcile" ELSE "fetch"
  /\ exitCode' = exitCode
AfterBadPage ==
  /\ pc \in {"fetch", "reconcile"}
  /\ lastArr.kind \in {"status", "malformed", "page"} /\ lastArr.arr = <<>>
Completed == pc = "done" /\ exitCode = 0 /\ perfWritten /\ catWritten

\* C13: a page that comes back with a non-success status, malformed JSON or
\* empty ends only the loop of its brand: the brand's records are kept, the
\* following brands are fetched, and the run completes, writes both files and
\* exits 0 (unless a later request is rejected).
C13_BadPageEndsOnlyItsLoop ==
  /\ [][BadPageStep => KeepsAndMovesOn]_vars
  /\ (AfterBadPage /\ pc = "fetch") ~> (lastReq.entry = bi /\ pc = "await")
  /\ AfterBadPage ~> (Completed \/ lastArr.kind = "rejected")

\* a non-2xx answer ended the loop of the first entry, which keeps its one
\* record, and the second entry is about to be fetched
C13_Witness ==
  /\ lastArr.kind = "status" /\ lastReq.entry = 1
  /\ pc = "fetch" /\ bi = 2
  /\ Len(freshByBrand[brandList[1]]) = 1

\* ---- C14
RECURSIVE SumLen(_, _)
SumLen(f, S) ==
  IF S = {} THEN 0
  ELSE LET b == CHOOSE x \in S : TRUE IN Len(f[b]) + SumLen(f, S \ {b})
\* no identifier twice among the fresh records of all brands
GloballyDistinct(fbb) ==
  \A b1, b2 \in DOMAIN fbb : \A i \in 1..Len(fbb[b1]), j \in 1..Len(fbb[b2]) :
    idFor(fbb[b1][i]) = idFor(fbb[b2][j]) => (b1 = b2 /\ i = j)

\* C14: in every run, a brand's fresh records never outnumber its quota, no
\* identifier occurs twice among the fresh records of all brands, and the
\* fresh records of the run never outnumber max.
C14_FreshWithinQuota ==
  Configured =>
    /\ \A b \in DOMAIN freshByBrand : Len(freshByBrand[b]) <= quota[b]
    /\ GloballyDistinct(freshByBrand)
    /\ SumLen(freshByBrand, DOMAIN freshByBrand) <= max
    /\ Len(fresh) <= max

\* two brands have met their quota with different records, and the second
\* brand was offered more than it kept
C14_Witness ==
  /\ pc = "reconcile" /\ Len(brandList) = 2 /\ brandList[1] # brandList[2]
  /\ \A b \in DOMAIN freshByBrand : Len(freshByBrand[b]) = 1 /\ quota[b] = 1
  /\ seen = {1, 2}

\* ---- C15
\* the identifiers fetched by this run
FreshIds == {idFor(fresh[i]) : i \in 1..Len(fresh)}
TableWritten == pc \in {"writeCat", "done"}

\* C15: the written performer table holds one record per identifier of the
\* run's final catalog list, in catalog order; the record of an identifier
\* fetched in this run is the fresh one, that of any other identifier is the
\* previous table's; previous identifiers outside the list are not written.
C15_TableIsCatalogFreshWins ==
  TableWritten =>
    /\ perfFile.exists /\ perfFile.count = Len(outIds)
    /\ MapKeys(perfFile.performers) = outIds
    /\ \A i \in 1..Len(perfFile.performers) :
         LET p == perfFile.performers[i]
         IN  IF idFor(p) \in FreshIds THEN p.at = now
             ELSE MapHas(prevMap, idFor(p)) /\ p = MapGet(prevMap, idFor(p))

\* the table written holds the fresh record of an identifier the previous
\* table had too, and leaves out another identifier of the previous table
C15_Witness ==
  /\ TableWritten
  /\ \E id \in Range(outIds) : id \in FreshIds /\ MapHas(prevMap, id)
  /\ \E id \in Range(MapKeys(prevMap)) : id \notin Range(outIds)

\* ---- C16
\* the identifiers fetched, brand by brand in brand-list order, each brand's in
\* the order the upstream returned them
RECURSIVE FreshInBrandOrder(_)
FreshInBrandOrder(i) ==
  IF i > Len(brandList) THEN <<>>
  ELSE MapKeys(freshByBrand[brandList[i]]) \o FreshInBrandOrder(i + 1)

\* C16: a reseeding run builds the catalog from the fetched identifiers in
\* brand-list order and, only if these are fewer than max, the remaining
\* identifiers of the merged table in the table's order, cut at max; the
\* previous catalog list is not consulted.
C16_ReseedRebuilds ==
  (Built /\ needReseed) =>
    LET f == Take(Distinct(FreshInBrandOrder(1)), max)
        rest == SelectSeq(MapKeys(merged), LAMBDA id : id \notin Range(f))
    IN  outIds = IF Len(f) < max THEN Take(f \o rest, max) ELSE f

\* a run with --reseed over the catalog 1, 2 fetches 2 alone and builds 2, 1
C16_Witness ==
  /\ pc = "done" /\ reseed /\ needReseed
  /\ prevIds = <<1, 2>>
  /\ FreshInBrandOrder(1) = <<2>>
  /\ outIds = <<2, 1>>

\* ---- C17
\* a request leaves
Sends == pc = "fetch" /\ pc' = "await"

\* C17: at most one request is in flight; requests follow the brand list, a
\* brand's loop starting only when the loops before it have ended; the pages
\* requested for a brand are 1, 2, 3, ... without gap or repeat; every page
\* size is between 1 and 100.
C17_Sequential ==
  /\ [](inflight <= 1)
  /\ [](lastReq # NoReq => lastReq.size \in 1..DefaultSize)
  /\ [][Sends =>
          /\ inflight = 0
          /\ lastReq'.entry >= lastReq.entry
          /\ lastReq'.page = IF lastReq'.brand = lastReq.brand
                             THEN lastReq.page + 1 ELSE 1]_vars

\* the same, with the pages counted for each entry of the brand list
C17_SequentialPerEntry ==
  /\ [](inflight <= 1)
  /\ [](lastReq # NoReq => lastReq.size \in 1..DefaultSize /\ lastReq.page = entryReqs)
  /\ [][Sends =>
          /\ inflight = 0
          /\ lastReq'.entry >= lastReq.entry
          /\ lastReq'.page = IF lastReq'.entry = lastReq.entry
                             THEN lastReq.page + 1 ELSE 1]_vars

\* ---- C18
\* a successful response of topic mode
TopicAnswered == livePc = "done" /\ liveResp.mode = "topic"
\* the scanned records that match the topic
Matching == SelectSeq(liveAll, LAMBDA r : matchesTopic(r, liveReq.topic))
DrawnFrom(list, src) == Range(list) \subseteq Range(src)

\* C18: in a successful topic-mode response exactly one of topicApplied and
\* topicFallback is true; with strictTopic the performers are drawn from the
\* matching records only; without it, from the matching records if there is
\* one, else from all scanned records with topicFallback true.  The scan
\* sends at most 10 upstream requests; the response holds at most size
\* performers and no itemId twice.
C18_TopicMode ==
  /\ liveSent <= MaxScanPages
  /\ TopicAnswered =>
       LET out == liveResp.performers
       IN  /\ liveResp.status = 200 /\ liveResp.ok
           /\ liveResp.topicApplied # liveResp.topicFallback
           /\ liveReq.strictTopic =>
                DrawnFrom(out, Matching) /\ liveResp.topicApplied
           /\ (~liveReq.strictTopic /\ Matching # <<>>) =>
                DrawnFrom(out, Matching) /\ liveResp.topicApplied
           /\ (~liveReq.strictTopic /\ Matching = <<>>) =>
                DrawnFrom(out, liveAll) /\ liveResp.topicFallback
           /\ Len(out) <= liveReq.size
           /\ \A i, j \in 1..Len(out) :
                LiveKey(out[i].itemId) = LiveKey(out[j].itemId) => i = j

\* ten pages were scanned without a match, and the non-strict response falls
\* back to the records scanned
C18_Witness ==
  /\ TopicAnswered /\ ~liveReq.strictTopic
  /\ liveSent = MaxScanPages
  /\ liveResp.topicFallback /\ Len(liveResp.performers) = 2

\* ---- C19
\* C19: a request to host nitevelour.com is redirected (301) to the same URL
\* on www.nitevelour.com; a request to / with a filter parameter is redirected
\* (302) to /live/ with its query kept; the target of a middleware is not
\* redirected by it again, so each middleware redirects at most once and
\* every request reaches next().
C19_MiddlewaresDoNotLoop ==
  /\ [](mwHostRedirects <= 1 /\ mwFilterRedirects <= 1)
  /\ [][(mwPc = "host" /\ mwUrl.host = ApexHost) =>
          /\ mwStatus' = 301
          /\ mwUrl' = [host |-> WwwHost, path |-> mwUrl.path, query |-> mwUrl.query]
          /\ ~IsApex(mwUrl')]_vars
  /\ [][(mwPc = "filter" /\ mwUrl.path = "/" /\ mwUrl.query \cap FilterKeys # {}) =>
          /\ mwStatus' = 302
          /\ mwUrl' = [host |-> mwUrl.host, path |-> "/live/", query |-> mwUrl.query]
          /\ ~HasFilters(mwUrl')]_vars
  /\ (mwPc \in {"host", "filter"}) ~> (mwPc = "next")

\* a request to nitevelour.com/ with a filter parameter has been redirected by
\* both middlewares and passed on
C19_Witness ==
  /\ mwPc = "next"
  /\ mwHostRedirects = 1 /\ mwFilterRedirects = 1
  /\ mwUrl.host = WwwHost /\ mwUrl.path = "/live/" /\ "brands" \in mwUrl.query
====
